---- MODULE Spec2Model ----
(***************************************************************************)
(* Model of DistributionStack (lib/cdk-s3-distribution-stack.ts): the      *)
(* constructor's build sequence, the resource graph it declares, and the   *)
(* evaluation of the two alarms it configures.                             *)
(*                                                                         *)
(* The resource graph is a function from construct id to the declared      *)
(* entity.  A reference from one entity to another is the construct id of  *)
(* the referenced entity; the constructor's local constants carry those    *)
(* ids from the step that returns them to the step that uses them.         *)
(***************************************************************************)
EXTENDS Integers, Sequences, FiniteSets, TLC

VARIABLES pc, props, resources, locals, trace, data, alarmState, periods

vars == <<pc, props, resources, locals, trace, data, alarmState, periods>>

(* ---------------- bounds of the exploration ---------------- *)

\* metric values of one period range over 0..MaxMetric
MaxMetric == 3
\* number of alarm evaluations explored after the stack is built
MaxPeriods == 3

(* ---------------- inputs ---------------- *)

BucketNames == {"my-unique-bucket-name", "other-bucket"}
DomainNames == {"mydomain.com", "example.org", "shop.example.org"}
\* StackProps.env.region: the region the stack itself is configured with
Regions == {"us-east-1", "eu-west-1", "ap-south-1"}

\* props of the constructor; the empty sequence is `undefined`
\* (the constructor called with a scope and an id only)
PropsValues ==
    {<<>>} \cup
    { <<[bucketName |-> b, domainName |-> d, region |-> r]>> :
        b \in BucketNames, d \in DomainNames, r \in Regions }

\* a data point of one period: <<>> is "no data", <<v>> is the value v
DataPoints == {<<>>} \cup { <<v>> : v \in 0..MaxMetric }

undefined == "undefined"

(* ---------------- the build steps ---------------- *)

\* new Construct(this, id, ...): adds the entity under its id
Declare(graph, id, entity) == (id :> entity) @@ graph

buildAppBucket(graph, bucketName) ==
    [ graph |-> Declare(graph, "AppBucket",
                    [ kind |-> "Bucket",
                      bucketName |-> bucketName,
                      policy |-> {} ]),
      ret |-> "AppBucket" ]

lookupHostedZone(graph, domainName, privateZone) ==
    [ graph |-> Declare(graph, "HostedZone",
                    [ kind |-> "HostedZone",
                      domainName |-> domainName,
                      privateZone |-> privateZone ]),
      ret |-> "HostedZone" ]

buildDistributionCertificate_NoZone(graph, domainName, hostedZone, stackRegion) ==
    [ graph |-> Declare(graph, "DistributionCertificate",
                    [ kind |-> "Certificate",
                      domainName |-> domainName,
                      hostedZone |-> undefined,
                      validation |-> "DNS",
                      region |-> stackRegion ]),
      ret |-> "DistributionCertificate" ]

buildDistributionCertificate_FixedDomain(graph, domainName, hostedZone, stackRegion) ==
    [ graph |-> Declare(graph, "DistributionCertificate",
                    [ kind |-> "Certificate",
                      domainName |-> "mydomain.com",
                      hostedZone |-> hostedZone,
                      validation |-> "DNS",
                      region |-> stackRegion ]),
      ret |-> "DistributionCertificate" ]

\* No `region` is passed to DnsValidatedCertificate, so the certificate is
\* requested in the region of the stack that declares it.
buildDistributionCertificate(graph, domainName, hostedZone, stackRegion) ==
    [ graph |-> Declare(graph, "DistributionCertificate",
                    [ kind |-> "Certificate",
                      domainName |-> domainName,
                      hostedZone |-> hostedZone,
                      validation |-> "DNS",
                      region |-> stackRegion ]),
      ret |-> "DistributionCertificate" ]

\* the single origin configuration of the distribution
originConfigs(originAccessIdentity, bucketSource) ==
    << [ s3OriginSource |->
            [ originAccessIdentity |-> originAccessIdentity,
              s3BucketSource |-> bucketSource ],
         behaviors |->
            << [ allowedMethods |-> {"GET", "HEAD"},
                 compress |-> TRUE,
                 queryString |-> FALSE,
                 cookies |-> "none",
                 isDefaultBehavior |-> FALSE ] >> ] >>

\* "CDK Automatically adds OAI user to the bucket policy": declaring the
\* distribution grants the access identity read access on the bucket
GrantRead(graph, bucketSource, originAccessIdentity) ==
    IF bucketSource \in DOMAIN graph
    THEN [graph EXCEPT ![bucketSource].policy = @ \cup {originAccessIdentity}]
    ELSE graph

buildCloudFrontDistribution(graph, bucketSource, domainName, certificate) ==
    LET withOAI == Declare(graph, "AppDistributionOAI",
                       [ kind |-> "OriginAccessIdentity" ])
        originAccessIdentity == "AppDistributionOAI"
        distribution ==
            [ kind |-> "Distribution",
              comment |-> "App Distribution",
              viewerProtocolPolicy |-> "redirect-to-https",
              httpVersion |-> "http2",
              defaultRootObject |-> "index.html",
              priceClass |-> "PriceClass_100",
              acmCertRef |-> certificate,
              names |-> <<domainName>>,
              securityPolicy |-> "TLSv1.2_2018",
              sslMethod |-> "sni-only",
              errorConfigurations |->
                  << [ errorCode |-> 404,
                       responseCode |-> 200,
                       responsePagePath |-> "/index.html" ] >>,
              originConfigs |-> originConfigs(originAccessIdentity, bucketSource) ]
    IN  [ graph |-> Declare(GrantRead(withOAI, bucketSource, originAccessIdentity),
                        "AppDistribution", distribution),
          ret |-> "AppDistribution" ]

\* the Metric both alarms are built on, up to its name
errorMetric(metricName, cloudFrontDistribution) ==
    [ metricName |-> metricName,
      namespace |-> "AWS/CloudFront",
      period |-> 3600,
      statistic |-> "Average",
      unit |-> "Count",
      dimensions |-> [ Region |-> "Global",
                       DistributionId |-> cloudFrontDistribution ] ]

buildAlarms_OneAlarm(graph, cloudFrontDistribution) ==
    Declare(graph, "ClientHttpErrorAlarm",
        [ kind |-> "Alarm",
          alarmName |-> "CloudFront4XX",
          comparisonOperator |-> "GreaterThanThreshold",
          evaluationPeriods |-> 1,
          metric |-> errorMetric("4xxErrorRate", cloudFrontDistribution),
          threshold |-> 2,
          treatMissingData |-> "missing" ])

buildAlarms_NotBreaching(graph, cloudFrontDistribution) ==
    LET client ==
            [ kind |-> "Alarm",
              alarmName |-> "CloudFront4XX",
              comparisonOperator |-> "GreaterThanThreshold",
              evaluationPeriods |-> 1,
              metric |-> errorMetric("4xxErrorRate", cloudFrontDistribution),
              threshold |-> 2,
              treatMissingData |-> "notBreaching" ]
        server ==
            [ kind |-> "Alarm",
              alarmName |-> "CloudFront5XX",
              comparisonOperator |-> "GreaterThanThreshold",
              evaluationPeriods |-> 1,
              metric |-> errorMetric("5xxErrorRate", cloudFrontDistribution),
              threshold |-> 1,
              treatMissingData |-> "notBreaching" ]
    IN  Declare(Declare(graph, "ClientHttpErrorAlarm", client),
                "ServerHttpErrorAlarm", server)

buildAlarms_GreaterOrEqual(graph, cloudFrontDistribution) ==
    LET client ==
            [ kind |-> "Alarm",
              alarmName |-> "CloudFront4XX",
              comparisonOperator |-> "GreaterThanOrEqualToThreshold",
              evaluationPeriods |-> 1,
              metric |-> errorMetric("4xxErrorRate", cloudFrontDistribution),
              threshold |-> 2,
              treatMissingData |-> "missing" ]
        server ==
            [ kind |-> "Alarm",
              alarmName |-> "CloudFront5XX",
              comparisonOperator |-> "GreaterThanOrEqualToThreshold",
              evaluationPeriods |-> 1,
              metric |-> errorMetric("5xxErrorRate", cloudFrontDistribution),
              threshold |-> 1,
              treatMissingData |-> "missing" ]
    IN  Declare(Declare(graph, "ClientHttpErrorAlarm", client),
                "ServerHttpErrorAlarm", server)

buildAlarms_TouchDistribution(graph, cloudFrontDistribution) ==
    LET client ==
            [ kind |-> "Alarm",
              alarmName |-> "CloudFront4XX",
              comparisonOperator |-> "GreaterThanThreshold",
              evaluationPeriods |-> 1,
              metric |-> errorMetric("4xxErrorRate", cloudFrontDistribution),
              threshold |-> 2,
              treatMissingData |-> "missing" ]
        server ==
            [ kind |-> "Alarm",
              alarmName |-> "CloudFront5XX",
              comparisonOperator |-> "GreaterThanThreshold",
              evaluationPeriods |-> 1,
              metric |-> errorMetric("5xxErrorRate", cloudFrontDistribution),
              threshold |-> 1,
              treatMissingData |-> "missing" ]
        touched ==
            IF cloudFrontDistribution \in DOMAIN graph
            THEN [graph EXCEPT ![cloudFrontDistribution].comment = "App Distribution (monitored)"]
            ELSE graph
    IN  Declare(Declare(touched, "ClientHttpErrorAlarm", client),
                "ServerHttpErrorAlarm", server)

buildAlarms(graph, cloudFrontDistribution) ==
    LET client ==
            [ kind |-> "Alarm",
              alarmName |-> "CloudFront4XX",
              comparisonOperator |-> "GreaterThanThreshold",
              evaluationPeriods |-> 1,
              metric |-> errorMetric("4xxErrorRate", cloudFrontDistribution),
              threshold |-> 2,
              treatMissingData |-> "missing" ]
        server ==
            [ kind |-> "Alarm",
              alarmName |-> "CloudFront5XX",
              comparisonOperator |-> "GreaterThanThreshold",
              evaluationPeriods |-> 1,
              metric |-> errorMetric("5xxErrorRate", cloudFrontDistribution),
              threshold |-> 1,
              treatMissingData |-> "missing" ]
    IN  Declare(Declare(graph, "ClientHttpErrorAlarm", client),
                "ServerHttpErrorAlarm", server)

(* ---------------- the constructor ---------------- *)

constructorSteps_ZoneFirst ==
    << "lookupHostedZone", "buildAppBucket", "buildDistributionCertificate",
       "buildCloudFrontDistribution", "buildAlarms" >>

\* the statements of the constructor body after the destructuring of props
constructorSteps ==
    << "buildAppBucket", "lookupHostedZone", "buildDistributionCertificate",
       "buildCloudFrontDistribution", "buildAlarms" >>

\* the statement that runs after the i-th one
StepAt(i) == IF i <= Len(constructorSteps) THEN constructorSteps[i] ELSE "done"

IndexOf(step) == CHOOSE i \in 1..Len(constructorSteps) : constructorSteps[i] = step

After(step) == StepAt(IndexOf(step) + 1)

Init ==
    /\ pc = "start"
    /\ props \in PropsValues
    /\ resources = << >>
    /\ locals = [ n \in {"bucketSource", "hostedZone", "certificate", "distribution"}
                    |-> undefined ]
    /\ trace = << >>
    /\ data = << >>
    /\ alarmState = << >>
    /\ periods = 0

\* super(scope, id, props); const { domainName, bucketName } = props;
\* destructuring `undefined` throws a TypeError
Construct ==
    /\ pc = "start"
    /\ pc' = IF props = << >> THEN "threw" ELSE StepAt(1)
    /\ UNCHANGED <<props, resources, locals, trace, data, alarmState, periods>>

CallBuildAppBucket ==
    /\ pc = "buildAppBucket"
    /\ LET r == buildAppBucket(resources, props[1].bucketName)
       IN  /\ resources' = r.graph
           /\ locals' = [locals EXCEPT !.bucketSource = r.ret]
    /\ trace' = Append(trace, pc)
    /\ pc' = After(pc)
    /\ UNCHANGED <<props, data, alarmState, periods>>

CallLookupHostedZone ==
    /\ pc = "lookupHostedZone"
    /\ LET r == lookupHostedZone(resources, props[1].domainName, FALSE)
       IN  /\ resources' = r.graph
           /\ locals' = [locals EXCEPT !.hostedZone = r.ret]
    /\ trace' = Append(trace, pc)
    /\ pc' = After(pc)
    /\ UNCHANGED <<props, data, alarmState, periods>>

CallBuildDistributionCertificate ==
    /\ pc = "buildDistributionCertificate"
    /\ LET r == buildDistributionCertificate(resources, props[1].domainName,
                    locals.hostedZone, props[1].region)
       IN  /\ resources' = r.graph
           /\ locals' = [locals EXCEPT !.certificate = r.ret]
    /\ trace' = Append(trace, pc)
    /\ pc' = After(pc)
    /\ UNCHANGED <<props, data, alarmState, periods>>

CallBuildCloudFrontDistribution ==
    /\ pc = "buildCloudFrontDistribution"
    /\ LET r == buildCloudFrontDistribution(resources, locals.bucketSource,
                    props[1].domainName, locals.certificate)
       IN  /\ resources' = r.graph
           /\ locals' = [locals EXCEPT !.distribution = r.ret]
    /\ trace' = Append(trace, pc)
    /\ pc' = After(pc)
    /\ UNCHANGED <<props, data, alarmState, periods>>

CallBuildAlarms ==
    /\ pc = "buildAlarms"
    /\ resources' = buildAlarms(resources, locals.distribution)
    /\ trace' = Append(trace, pc)
    /\ pc' = After(pc)
    /\ UNCHANGED <<props, locals, data, alarmState, periods>>

(* ---------------- evaluation of the declared alarms ---------------- *)

AlarmIds == { id \in DOMAIN resources : resources[id].kind = "Alarm" }

\* the fail condition that comparisonOperator and threshold define
Breaching(alarm, v) ==
    CASE alarm.comparisonOperator = "GreaterThanThreshold" -> v > alarm.threshold
      [] alarm.comparisonOperator = "GreaterThanOrEqualToThreshold" -> v >= alarm.threshold
      [] alarm.comparisonOperator = "LessThanThreshold" -> v < alarm.threshold
      [] alarm.comparisonOperator = "LessThanOrEqualToThreshold" -> v <= alarm.threshold

\* the last evaluationPeriods data points of the metric
Window(alarm, points) ==
    IF Len(points) <= alarm.evaluationPeriods
    THEN points
    ELSE SubSeq(points, Len(points) - alarm.evaluationPeriods + 1, Len(points))

\* state of the alarm over the evaluated data points, by treatMissingData:
\*   missing      - a period without data is not evaluated; with no data at
\*                  all the alarm is INSUFFICIENT_DATA
\*   notBreaching - a period without data counts as within the threshold
\*   breaching    - a period without data counts as breaching
\*   ignore       - the current state is kept
Evaluate(alarm, window, current) ==
    LET present == { i \in 1..Len(window) : window[i] # << >> }
        missing == (1..Len(window)) \ present
        fails(i) == Breaching(alarm, window[i][1])
    IN  IF missing = {}
        THEN IF \A i \in present : fails(i) THEN "ALARM" ELSE "OK"
        ELSE CASE alarm.treatMissingData = "missing" ->
                    IF present = {} THEN "INSUFFICIENT_DATA"
                    ELSE IF \A i \in present : fails(i) THEN "ALARM" ELSE "OK"
               [] alarm.treatMissingData = "notBreaching" -> "OK"
               [] alarm.treatMissingData = "breaching" ->
                    IF \A i \in present : fails(i) THEN "ALARM" ELSE "OK"
               [] alarm.treatMissingData = "ignore" -> current

\* one period of the metric of alarm `id` elapses with data point dp
EvaluateAlarm(id, dp) ==
    /\ pc = "done"
    /\ periods < MaxPeriods
    /\ id \in AlarmIds
    /\ LET alarm == resources[id]
           window == Window(alarm, IF id \in DOMAIN data THEN Append(data[id], dp) ELSE <<dp>>)
           current == IF id \in DOMAIN alarmState THEN alarmState[id] ELSE "INSUFFICIENT_DATA"
       IN  /\ data' = (id :> window) @@ data
           /\ alarmState' = (id :> Evaluate(alarm, window, current)) @@ alarmState
    /\ periods' = periods + 1
    /\ UNCHANGED <<pc, props, resources, locals, trace>>

Next ==
    \/ Construct
    \/ CallBuildAppBucket
    \/ CallLookupHostedZone
    \/ CallBuildDistributionCertificate
    \/ CallBuildCloudFrontDistribution
    \/ CallBuildAlarms
    \/ \E id \in {"ClientHttpErrorAlarm", "ServerHttpErrorAlarm"}, dp \in DataPoints :
          EvaluateAlarm(id, dp)

Spec == Init /\ [][Next]_vars

(* ---------------- properties ---------------- *)

Count(kind) == Cardinality({ id \in DOMAIN resources : resources[id].kind = kind })

Declared(id) == id \in DOMAIN resources

\* C1: once the constructor has completed, the graph holds exactly one
\* bucket, one hosted-zone reference, one certificate, one distribution, one
\* access identity and two alarms; at no step is there a second entity of a
\* kind (a third alarm).
C1_ExactCounts ==
    /\ \A k \in {"Bucket", "HostedZone", "Certificate", "Distribution",
                 "OriginAccessIdentity"} : Count(k) <= 1
    /\ Count("Alarm") <= 2
    /\ pc = "done" =>
          /\ \A k \in {"Bucket", "HostedZone", "Certificate", "Distribution",
                       "OriginAccessIdentity"} : Count(k) = 1
          /\ Count("Alarm") = 2
          /\ Cardinality(DOMAIN resources) = 7

C1_Witness ==
    /\ pc = "done"
    /\ Count("Alarm") = 2
    /\ Count("Bucket") = 1
    /\ Count("Distribution") = 1

\* the behaviors of a distribution that are marked as the default one
DefaultBehaviors(distribution) ==
    UNION { { <<i, j>> : j \in { k \in 1..Len(distribution.originConfigs[i].behaviors) :
                                    distribution.originConfigs[i].behaviors[k].isDefaultBehavior } } :
            i \in 1..Len(distribution.originConfigs) }

\* C2: the declared distribution has exactly one behavior marked as the
\* default behavior among all behaviors of all its origin configurations.
C2_OneDefaultBehavior ==
    Declared("AppDistribution") =>
        Cardinality(DefaultBehaviors(resources["AppDistribution"])) = 1

\* C3: a stack constructed with a scope and an id only (no props) completes
\* and yields an empty resource graph.
C3_EmptyInstantiation ==
    (props = << >> /\ pc # "start") =>
        (pc = "done" /\ DOMAIN resources = {})

\* the region the delivery network requires its certificate in
RequiredRegion == "us-east-1"

\* C4: the certificate resides in the delivery network's required region
\* whatever region the stack is configured with.
C4_CertificateRegion ==
    Declared("DistributionCertificate") =>
        resources["DistributionCertificate"].region = RequiredRegion

AllMissing(points) == \A i \in 1..Len(points) : points[i] = << >>

\* C5 (as claimed): for each alarm, periods without data are evaluated as
\* not breaching: the alarm is not in the alarm state and is evaluated as
\* within the threshold (OK).
C5_MissingIsNonBreaching ==
    \A id \in DOMAIN data :
        AllMissing(data[id]) => alarmState[id] = "OK"

\* C5 (amended): both alarms are declared with the "missing" treatment; when
\* the evaluated periods hold no data the alarm is INSUFFICIENT_DATA: not in
\* the alarm state, and not evaluated as within the threshold either.
C5_MissingIsInsufficientData ==
    /\ \A id \in AlarmIds : resources[id].treatMissingData = "missing"
    /\ \A id \in DOMAIN data :
          AllMissing(data[id]) => alarmState[id] = "INSUFFICIENT_DATA"

C5_Witness ==
    /\ periods >= 2
    /\ \A id \in {"ClientHttpErrorAlarm", "ServerHttpErrorAlarm"} :
          /\ id \in DOMAIN data
          /\ AllMissing(data[id])
          /\ alarmState[id] = "INSUFFICIENT_DATA"

ExpectedOrder ==
    << "buildAppBucket", "lookupHostedZone", "buildDistributionCertificate",
       "buildCloudFrontDistribution", "buildAlarms" >>

\* C6: the build steps run in the order bucket, zone lookup, certificate,
\* distribution, alarms: the steps run so far are always an initial part of
\* that order, the next step is the one that follows, and on completion all
\* five have run exactly once.
C6_BuildOrder ==
    /\ Len(trace) <= Len(ExpectedOrder)
    /\ \A i \in 1..Len(trace) : trace[i] = ExpectedOrder[i]
    /\ pc \notin {"start", "threw", "done"} =>
          /\ Len(trace) < Len(ExpectedOrder)
          /\ pc = ExpectedOrder[Len(trace) + 1]
    /\ pc = "done" => trace = ExpectedOrder

C6_Witness ==
    /\ pc = "done"
    /\ Len(trace) = 5
    /\ trace[1] = "buildAppBucket"
    /\ trace[5] = "buildAlarms"

\* the construct ids an entity refers to
Refs(entity) ==
    CASE entity.kind = "Certificate" -> { entity.hostedZone }
      [] entity.kind = "Distribution" ->
            { entity.acmCertRef } \cup
            UNION { { entity.originConfigs[i].s3OriginSource.s3BucketSource,
                      entity.originConfigs[i].s3OriginSource.originAccessIdentity } :
                    i \in 1..Len(entity.originConfigs) }
      [] entity.kind = "Alarm" -> { entity.metric.dimensions.DistributionId }
      [] entity.kind = "Bucket" -> entity.policy
      [] OTHER -> {}

KindOf(id) == IF Declared(id) THEN resources[id].kind ELSE undefined

\* C7: every reference an entity holds points to an entity declared in the
\* graph, at every step; on completion the certificate refers to the zone,
\* the distribution to the bucket, the access identity and the certificate,
\* and both alarms carry the id of the distribution that
\* buildCloudFrontDistribution returned.
C7_FullyWired ==
    /\ \A id \in DOMAIN resources : Refs(resources[id]) \subseteq DOMAIN resources
    /\ pc = "done" =>
          /\ KindOf(resources["DistributionCertificate"].hostedZone) = "HostedZone"
          /\ KindOf(resources["AppDistribution"].acmCertRef) = "Certificate"
          /\ \A i \in 1..Len(resources["AppDistribution"].originConfigs) :
                LET src == resources["AppDistribution"].originConfigs[i].s3OriginSource
                IN  /\ KindOf(src.s3BucketSource) = "Bucket"
                    /\ KindOf(src.originAccessIdentity) = "OriginAccessIdentity"
          /\ \A id \in AlarmIds :
                /\ resources[id].metric.dimensions.DistributionId = locals.distribution
                /\ KindOf(locals.distribution) = "Distribution"

C7_Witness ==
    /\ pc = "done"
    /\ resources["DistributionCertificate"].hostedZone = "HostedZone"
    /\ resources["ServerHttpErrorAlarm"].metric.dimensions.DistributionId = "AppDistribution"
    /\ Declared("AppDistribution")

\* C8: with the value v of the single evaluated period, the 4xx alarm is in
\* the alarm state iff v > 2 and the 5xx alarm iff v > 1.
C8_Thresholds ==
    /\ \A id \in AlarmIds : resources[id].evaluationPeriods = 1
    /\ \A id \in DOMAIN data :
          (Len(data[id]) = 1 /\ data[id][1] # << >>) =>
              LET v == data[id][1][1]
              IN  /\ id = "ClientHttpErrorAlarm" => (alarmState[id] = "ALARM" <=> v > 2)
                  /\ id = "ServerHttpErrorAlarm" => (alarmState[id] = "ALARM" <=> v > 1)
                  /\ alarmState[id] \in {"ALARM", "OK"}

C8_Witness ==
    /\ "ClientHttpErrorAlarm" \in DOMAIN data
    /\ "ServerHttpErrorAlarm" \in DOMAIN data
    /\ data["ClientHttpErrorAlarm"] = << <<2>> >>
    /\ data["ServerHttpErrorAlarm"] = << <<2>> >>
    /\ alarmState["ClientHttpErrorAlarm"] = "OK"
    /\ alarmState["ServerHttpErrorAlarm"] = "ALARM"

\* C9: the certificate is requested for the domain name passed to the
\* constructor and the distribution's alias list is exactly that one name.
C9_DomainName ==
    /\ Declared("DistributionCertificate") =>
          resources["DistributionCertificate"].domainName = props[1].domainName
    /\ Declared("AppDistribution") =>
          resources["AppDistribution"].names = << props[1].domainName >>

C9_Witness ==
    /\ pc = "done"
    /\ props[1].domainName = "example.org"
    /\ resources["DistributionCertificate"].domainName = "example.org"
    /\ resources["AppDistribution"].names = << "example.org" >>

\* C10 (as claimed): no step changes an entity that an earlier step
\* declared, neither its attributes nor its attached policy.
C10_NoMutation ==
    [][ \A id \in DOMAIN resources :
            /\ id \in DOMAIN resources'
            /\ resources'[id] = resources[id] ]_vars

\* C10 (amended): a declared entity is never removed and its attributes are
\* never changed; the only later change is to the bucket's attached policy,
\* which gains the access identity when the distribution is declared.
C10_OnlyBucketPolicyGrows ==
    [][ \A id \in DOMAIN resources :
            /\ id \in DOMAIN resources'
            /\ IF resources[id].kind = "Bucket"
               THEN /\ [resources'[id] EXCEPT !.policy = resources[id].policy] = resources[id]
                    /\ resources[id].policy \subseteq resources'[id].policy
                    /\ (resources'[id].policy \ resources[id].policy) # {} =>
                          /\ pc = "buildCloudFrontDistribution"
                          /\ resources'[id].policy \ resources[id].policy = {"AppDistributionOAI"}
               ELSE resources'[id] = resources[id] ]_vars

C10_Witness ==
    /\ pc = "done"
    /\ resources["AppBucket"].policy = {"AppDistributionOAI"}
    /\ resources["AppBucket"].bucketName = props[1].bucketName

====
